---- MODULE Spec2Model ----
(***************************************************************************)
(* imageking (src/main.py): a Streamlit page that parses a numbered script *)
(* into scenes, generates one image per scene through a thread pool,       *)
(* regenerates single scenes, and assembles the images into a video.       *)
(*                                                                         *)
(* Text is modelled as a sequence of one-character strings.  An image      *)
(* payload returned by the remote service is an opaque blob 1..MaxBlob.    *)
(* A video is the sequence of frames handed to the writer.                 *)
(***************************************************************************)
EXTENDS Integers, Sequences, FiniteSets, TLC

\* Python's None where a string is expected
None == "None"
\* Python's None where an image payload, a request or a video is expected:
\* a payload is <<blob>>, so that `not x` is x = <<>>
Absent == <<>>

\* ------------------------------------------------------------------ bounds
\* distinct payloads the remote service may answer with
MaxBlob == 2

\* ------------------------------------------------------------------- text
NL == "\n"
\* U+2028 LINE SEPARATOR
LS == "u2028"
Digits == {"0", "1", "2", "3", "4", "5", "6", "7", "8", "9"}
\* Python's \s and str.strip(): Unicode white space (U+2028 included)
Whitespace == {" ", NL, "\t", "\r", LS}

DigitValue(c) ==
    CASE c = "0" -> 0 [] c = "1" -> 1 [] c = "2" -> 2 [] c = "3" -> 3
      [] c = "4" -> 4 [] c = "5" -> 5 [] c = "6" -> 6 [] c = "7" -> 7
      [] c = "8" -> 8 [] c = "9" -> 9

\* int(num) for a string of decimal digits
RECURSIVE ToInt(_)
ToInt(s) ==
    IF s = <<>> THEN 0
    ELSE 10 * ToInt(SubSeq(s, 1, Len(s) - 1)) + DigitValue(s[Len(s)])

\* s[a..b] as Python's slice s[a-1:b]: empty when b < a
Slice(s, a, b) == IF b < a THEN <<>> ELSE SubSeq(s, a, b)

\* str.strip()
strip(s) ==
    LET keep == {i \in 1..Len(s) : s[i] \notin Whitespace}
    IN  IF keep = {} THEN <<>>
        ELSE LET lo == CHOOSE i \in keep : \A j \in keep : i <= j
                 hi == CHOOSE i \in keep : \A j \in keep : j <= i
             IN  SubSeq(s, lo, hi)

\* str.replace(U+2028, line break)
ReplaceLS(s) == [i \in 1..Len(s) |-> IF s[i] = LS THEN NL ELSE s[i]]

\* the directive marker literal of parse_script
Marker == <<"S", "h", "o", "t", " ", "o", "n">>

\* positions at which `sub` occurs in s
Occurrences(s, sub) ==
    {p \in 1..(Len(s) - Len(sub) + 1) : SubSeq(s, p, p + Len(sub) - 1) = sub}

\* `sub in s`
Contains(s, sub) == Occurrences(s, sub) # {}

\* s.split(sub, 1) when sub occurs in s: the text before the first
\* occurrence and the text after it
SplitOnce(s, sub) ==
    LET p == CHOOSE q \in Occurrences(s, sub) : \A r \in Occurrences(s, sub) : q <= r
    IN  <<Slice(s, 1, p - 1), Slice(s, p + Len(sub), Len(s))>>

\* ----------------------------------------------------------- parse_script
\* lengths d >= 1 such that t[p..p+d-1] are digits: what \d+ can take at p
DigitRuns(t, p) ==
    {d \in 1..(Len(t) - p + 1) : \A k \in 0..(d - 1) : t[p + k] \in Digits}

\* lengths w >= 0 such that t[p..p+w-1] are white space: what \s* can take
SpaceRuns(t, p) ==
    {w \in 0..(Len(t) - p + 1) : \A k \in 0..(w - 1) : t[p + k] \in Whitespace}

\* The lookahead \n\d+\s*\n of the pattern, tried at position q of t.
LookaheadDelim(t, q) ==
    /\ q <= Len(t)
    /\ t[q] = NL
    /\ \E d \in DigitRuns(t, q + 1) :
         \E w \in SpaceRuns(t, q + 1 + d) :
            /\ q + 1 + d + w <= Len(t)
            /\ t[q + 1 + d + w] = NL

\* (\d+)\s*\n(.+?)(?=\n\d+\s*\n|\Z) with DOTALL, anchored at position p:
\* <<d, w, b>> is d digits, w white-space characters, a line break and a
\* body of b >= 1 characters followed by the lookahead.
MatchesAt(t, p) ==
    UNION {UNION {{<<d, w, b>> : b \in {c \in 1..(Len(t) - (p + d + w)) :
                                          \/ p + d + w + 1 + c = Len(t) + 1
                                          \/ LookaheadDelim(t, p + d + w + 1 + c)}} :
                  w \in {v \in SpaceRuns(t, p + d) :
                            /\ p + d + v <= Len(t)
                            /\ t[p + d + v] = NL}} :
           d \in DigitRuns(t, p)}

\* The match the backtracking engine reports at p: \d+ and \s* are greedy
\* (longest first), .+? is lazy (shortest first).
FirstMatchAt(t, p) ==
    LET ms == MatchesAt(t, p)
        Before(a, b) ==
            \/ a[1] > b[1]
            \/ a[1] = b[1] /\ a[2] > b[2]
            \/ a[1] = b[1] /\ a[2] = b[2] /\ a[3] <= b[3]
    IN  CHOOSE m \in ms : \A o \in ms : Before(m, o)

\* re.findall from position p on: leftmost match, then on from its end
RECURSIVE FindAll(_, _)
FindAll(t, p) ==
    LET starts == {q \in p..Len(t) : MatchesAt(t, q) # {}}
    IN  IF starts = {} THEN <<>>
        ELSE LET q == CHOOSE s \in starts : \A r \in starts : s <= r
                 m == FirstMatchAt(t, q)
                 body == q + m[1] + m[2] + 1
             IN  <<<<SubSeq(t, q, q + m[1] - 1), SubSeq(t, body, body + m[3] - 1)>>>>
                   \o FindAll(t, body + m[3])

\* the scene built from one (num, block) match
SceneOf(num, rawblock) ==
    LET block == ReplaceLS(strip(rawblock))
        parts == SplitOnce(block, Marker)
    IN  IF Contains(block, Marker)
        THEN [id |-> ToInt(num), korean |-> strip(parts[1]),
              prompt_en |-> Marker \o strip(parts[2]), image_b64 |-> Absent]
        ELSE [id |-> ToInt(num), korean |-> strip(block),
              prompt_en |-> <<>>, image_b64 |-> Absent]

\* [mutant] the scenes are numbered by their place in the list
parse_script_Renumbered(text) ==
    LET matches == FindAll(text, 1)
    IN  [i \in 1..Len(matches) |->
           [SceneOf(matches[i][1], matches[i][2]) EXCEPT !.id = i]]

parse_script(text) ==
    LET matches == FindAll(text, 1)
    IN  [i \in 1..Len(matches) |-> SceneOf(matches[i][1], matches[i][2])]

\* ------------------------------------------------------------ the state
VARIABLES
    \* st.session_state
    scenes, raw_script, video_bytes, video_error_msg,
    image_orientation, image_quality, style_preset, lock_character,
    seconds_per_scene,
    \* the script run: which handler is executing and where
    pc,
    \* bulk_generate_images: the pool width, the futures in submission order,
    \* the futures as_completed has yielded, the exception leaving the loop
    max_workers, futures, yielded, raised,
    \* observation of the remote service: per scene index, the requests sent
    \* to client.images.generate and the number of completed runs of _task
    calls, runs,
    \* the module-level name imageio: the module, or None when its import failed
    imageio,
    \* script runs of the session so far
    reruns,
    \* the last direct call of a function: its name, arguments and result
    ret

vars == <<scenes, raw_script, video_bytes, video_error_msg,
          image_orientation, image_quality, style_preset, lock_character,
          seconds_per_scene, pc, max_workers, futures, yielded, raised,
          calls, runs, imageio, reruns, ret>>

session == <<raw_script, video_bytes, video_error_msg>>
config == <<image_orientation, image_quality, style_preset, lock_character,
            seconds_per_scene>>
pool == <<max_workers, futures, yielded, raised, calls, runs>>
env == <<imageio, reruns, ret>>

\* ------------------------------------------------------- configuration
\* seconds_per_scene is held in half seconds, the step of its slider: the
\* default 3.0, the slider's minimum 1.0, and the highest position explored
DefaultHalves == 6
MinHalves == 2
MaxHalves == 3

\* the radio labels, as <<prefix, rest>>
Square == <<"square", " 1:1 (1024x1024)">>
Landscape == <<"landscape", " 3:2 (1536x1024)">>
Portrait == <<"portrait", " 2:3 (1024x1536)">>
Orientations == {Square, Landscape, Portrait}
Qualities == {"low", "high"}
STYLE_PRESETS == {"docu-realistic", "docu-stickman", "full-2d"}
IMAGE_MODELS == [label \in {"OpenAI gpt-image-1"} |-> "gpt-image-1"]

\* str.startswith on a label
StartsWith(label, prefix) == Len(label) >= 1 /\ label[1] = prefix

SizeOf(orientation) ==
    IF StartsWith(orientation, "square") THEN "1024x1024"
    ELSE IF StartsWith(orientation, "landscape") THEN "1536x1024"
    ELSE "1024x1536"

get_image_params == <<SizeOf(image_orientation), image_quality>>

\* The style wrapper and the character addendum are fixed texts, kept as one
\* token each; the scene's prompt is appended under the "Scene:" label.
Compose(style, lock, base_prompt) ==
    LET wrapper == IF style \in STYLE_PRESETS THEN <<"Style Wrapper:" , style>> ELSE <<>>
        style_wrapper == IF lock THEN wrapper \o <<"recurring stickman narrator">> ELSE wrapper
    IN  IF style_wrapper # <<>>
        THEN style_wrapper \o <<NL, "Scene:", NL>> \o base_prompt
        ELSE base_prompt

build_full_prompt(base_prompt) == Compose(style_preset, lock_character, base_prompt)

\* ------------------------------------------------------- generate_image
Blobs == 1..MaxBlob
\* what client.images.generate (or reading its response) may raise
RemoteErrors == {"BadRequestError", "RateLimitError", "APIConnectionError"}

\* `not prompt`
Falsy(prompt) == prompt = <<>>

\* [mutant] the `if not prompt` guard is missing
RequestFor_NoGuard(prompt) ==
    <<[model |-> IMAGE_MODELS["OpenAI gpt-image-1"],
       prompt |-> build_full_prompt(prompt),
       size |-> get_image_params[1],
       quality |-> get_image_params[2],
       n |-> 1]>>

\* the requests generate_image sends for this prompt: none or one
RequestFor(prompt) ==
    IF Falsy(prompt) THEN <<>>
    ELSE <<[model |-> IMAGE_MODELS["OpenAI gpt-image-1"],
          prompt |-> build_full_prompt(prompt),
          size |-> get_image_params[1],
          quality |-> get_image_params[2],
          n |-> 1]>>

\* the ways a call of generate_image(prompt) can end: it returns a value, or
\* the exception of the remote call leaves it
generate_image(prompt) ==
    IF RequestFor(prompt) = <<>>
    THEN {[kind |-> "return", value |-> Absent]}
    ELSE {[kind |-> "return", value |-> <<b>>] : b \in Blobs}
           \cup {[kind |-> "raise", value |-> e] : e \in RemoteErrors}

\* -------------------------------------------------- bulk_generate_images
DefaultMaxWorkers == 4

Running == {i \in DOMAIN futures : futures[i].state = "RUNNING"}
Pending == {i \in DOMAIN futures : futures[i].state = "PENDING"}
Finished == {i \in DOMAIN futures : futures[i].state = "FINISHED"}

\* entry of bulk_generate_images(batch held in scenes, width)
EnterDispatch(width) ==
    /\ max_workers' = width
    /\ futures' = <<>>
    /\ yielded' = {}
    /\ raised' = None
    /\ calls' = [i \in DOMAIN scenes' |-> <<>>]
    /\ runs' = [i \in DOMAIN scenes' |-> 0]
    /\ pc' = "submit"

\* futures = [ex.submit(_task, i) for i in range(len(scenes))], one at a time
Submit ==
    /\ pc = "submit"
    /\ Len(futures) < Len(scenes)
    /\ futures' = Append(futures, [state |-> "PENDING", kind |-> None, value |-> None])
    /\ UNCHANGED <<scenes, session, config, env, pc, max_workers, yielded, raised, calls, runs>>

\* the list comprehension is complete: the main thread enters as_completed
SubmitDone ==
    /\ pc = "submit"
    /\ Len(futures) = Len(scenes)
    /\ pc' = "collect"
    /\ UNCHANGED <<scenes, session, config, env, pool>>

\* [mutant] a thread is started for every submitted item
CanStart_Unbounded(i) ==
    /\ i \in Pending
    /\ \A j \in Pending : i <= j

\* [mutant] a thread never takes a second item from the queue
CanStart_NoReuse(i) ==
    /\ i \in Pending
    /\ \A j \in Pending : i <= j
    /\ Cardinality(Running) < max_workers
    /\ i <= max_workers

\* A worker thread takes work item i: the pool has at most max_workers
\* threads, each runs one item at a time, and items leave the queue in
\* submission order.
CanStart(i) ==
    /\ i \in Pending
    /\ \A j \in Pending : i <= j
    /\ Cardinality(Running) < max_workers

\* _task(idx) begins: reads the prompt, and generate_image sends its request
TaskStart(i) ==
    /\ pc \in {"submit", "collect", "unwind"}
    /\ CanStart(i)
    /\ futures' = [futures EXCEPT ![i].state = "RUNNING"]
    /\ calls' = [calls EXCEPT ![i] = @ \o RequestFor(scenes[i].prompt_en)]
    /\ UNCHANGED <<scenes, session, config, env, pc, max_workers, yielded, raised, runs>>

\* [mutant] every task reports the index of the last scene (a closure over
\* the loop variable instead of the parameter)
TaskResult_LastIndex(idx, o) ==
    IF o.kind = "return"
    THEN [state |-> "FINISHED", kind |-> "return", value |-> <<Len(scenes), o.value>>]
    ELSE [state |-> "FINISHED", kind |-> "raise", value |-> o.value]

\* what _task(idx) hands to its future when generate_image ended with o:
\* `return idx, b64`, or the exception
TaskResult(idx, o) ==
    IF o.kind = "return"
    THEN [state |-> "FINISHED", kind |-> "return", value |-> <<idx, o.value>>]
    ELSE [state |-> "FINISHED", kind |-> "raise", value |-> o.value]

\* _task(idx) ends
TaskFinish(i) ==
    /\ i \in Running
    /\ \E o \in generate_image(scenes[i].prompt_en) :
          futures' = [futures EXCEPT ![i] = TaskResult(i, o)]
    /\ runs' = [runs EXCEPT ![i] = @ + 1]
    /\ UNCHANGED <<scenes, session, config, env, pc, max_workers, yielded, raised, calls>>

\* [mutant] the batch is rebuilt around the written scene, dropping the
\* images of the others
StoreImage_Rebuild(batch, idx, b64) ==
    [k \in DOMAIN batch |->
        [batch[k] EXCEPT !.image_b64 = IF k = idx THEN b64 ELSE Absent]]

\* [mutant] the result is merged by scene id: every scene with the id of
\* scene idx gets the image
StoreImage_ById(batch, idx, b64) ==
    [k \in DOMAIN batch |->
        IF batch[k].id = batch[idx].id
        THEN [batch[k] EXCEPT !.image_b64 = b64] ELSE batch[k]]

\* scenes[idx]["image_b64"] = b64
StoreImage(batch, idx, b64) == [batch EXCEPT ![idx].image_b64 = b64]

\* One turn of `for fut in as_completed(futures)`: a finished future is
\* yielded; fut.result() re-raises the task's exception, which leaves the
\* loop, or gives (idx, b64), which is stored.
Collect(i) ==
    /\ pc = "collect"
    /\ i \in Finished \ yielded
    /\ yielded' = yielded \cup {i}
    /\ IF futures[i].kind = "raise"
       THEN /\ raised' = futures[i].value
            /\ pc' = "unwind"
            /\ UNCHANGED scenes
       ELSE /\ scenes' = StoreImage(scenes, futures[i].value[1], futures[i].value[2])
            /\ UNCHANGED <<pc, raised>>
    /\ UNCHANGED <<session, config, env, max_workers, futures, calls, runs>>

\* the loop is exhausted; the with block's shutdown(wait=True) has nothing
\* left to wait for and the function returns
DispatchReturn ==
    /\ pc = "collect"
    /\ yielded = DOMAIN futures
    /\ pc' = "returned"
    /\ UNCHANGED <<scenes, session, config, env, pool>>

\* the exception leaves the with block: shutdown(wait=True) lets every
\* submitted item run to its end, then the exception leaves the function
DispatchRaise ==
    /\ pc = "unwind"
    /\ Finished = DOMAIN futures
    /\ pc' = "raised"
    /\ UNCHANGED <<scenes, session, config, env, pool>>

Dispatch ==
    \/ Submit
    \/ SubmitDone
    \/ \E i \in DOMAIN futures : TaskStart(i)
    \/ \E i \in DOMAIN futures : TaskFinish(i)
    \/ \E i \in DOMAIN futures : Collect(i)
    \/ DispatchReturn
    \/ DispatchRaise

\* ---------------------------------------------- create_video_from_scenes
\* frame rate of the only call site
VideoFps == 30

Max(a, b) == IF a >= b THEN a ELSE b

\* the payloads of the scenes that have one, in the order of the list
ImagesOf(batch) ==
    LET with == SelectSeq(batch, LAMBDA sc : sc.image_b64 # Absent)
    IN  [k \in 1..Len(with) |-> with[k].image_b64[1]]

\* max(1, int(seconds_per_scene * fps)); the duration is held in half
\* seconds (the slider's step), so seconds * fps = halves * fps / 2
FramesPerScene(halves, fps) == Max(1, (halves * fps) \div 2)

\* the frames appended to the writer: each image frames_per_scene times
FramesOf(images, per) ==
    [j \in 1..(Len(images) * per) |-> images[((j - 1) \div per) + 1]]

\* [mutant] what reached the file before the failing append is returned
OnWriteFailure_Partial(frames, k) == <<SubSeq(frames, 1, k), None>>

\* writer.append_data raised after k frames were appended: the except
\* clause returns no bytes and the message
OnWriteFailure(frames, k) == <<Absent, "WRITE_FRAME_ERROR">>

\* the (video_bytes, error) pairs the call can return; the writer, any frame
\* append or the read back of the file may fail
create_video_from_scenes(batch, halves, fps) ==
    IF imageio = None THEN {<<Absent, "IMAGEIO_MISSING">>}
    ELSE IF ImagesOf(batch) = <<>> THEN {<<Absent, "NO_IMAGES">>}
    ELSE LET frames == FramesOf(ImagesOf(batch), FramesPerScene(halves, fps))
         IN  {<<frames, None>>,
              <<Absent, "WRITER_ERROR">>,
              <<Absent, "FILE_READ_ERROR">>}
               \cup {OnWriteFailure(frames, k) : k \in 0..(Len(frames) - 1)}

\* ------------------------------------------------------ the script runs
\* script runs explored per session
MaxReruns == 3


Block(num, body) == num \o <<NL>> \o body \o <<NL>>
Directive(c) == Marker \o <<" ", c>>

\* texts typed into the text area
BlankText == <<" ", NL>>
NoSceneText == <<"a", "b">>
OneScene == Block(<<"1">>, <<"a", NL>> \o Directive("x"))
\* ids in descending order; the second block has no directive
SkipScene == Block(<<"2">>, Directive("x")) \o Block(<<"1">>, <<"a">>)
Descending == Block(<<"2">>, Directive("x")) \o Block(<<"1">>, Directive("y"))
Texts == {BlankText, NoSceneText, OneScene, SkipScene, Descending}

Idle == pc = "idle"

PoolAtRest ==
    /\ max_workers' = DefaultMaxWorkers
    /\ futures' = <<>>
    /\ yielded' = {}
    /\ raised' = None
    /\ calls' = <<>>
    /\ runs' = <<>>

\* One script run: each widget of the sidebar writes its value to the
\* session; a run started by a widget has no button clicked.
Sidebar ==
    /\ Idle
    /\ reruns < MaxReruns
    /\ reruns' = reruns + 1
    /\ \/ \E o \in Orientations : image_orientation' = o
            /\ UNCHANGED <<image_quality, style_preset, lock_character, seconds_per_scene>>
       \/ \E q \in Qualities : image_quality' = q
            /\ UNCHANGED <<image_orientation, style_preset, lock_character, seconds_per_scene>>
       \/ \E st \in STYLE_PRESETS : style_preset' = st
            /\ UNCHANGED <<image_orientation, image_quality, lock_character, seconds_per_scene>>
       \/ \E l \in BOOLEAN : lock_character' = l
            /\ UNCHANGED <<image_orientation, image_quality, style_preset, seconds_per_scene>>
       \/ \E h \in MinHalves..MaxHalves : seconds_per_scene' = h
            /\ UNCHANGED <<image_orientation, image_quality, style_preset, lock_character>>
    /\ UNCHANGED <<scenes, session, pc, pool, imageio, ret>>

\* [mutant] the typed text is stored before it is looked at
ClickedGenerate_StoreFirst(raw_text) ==
    /\ Idle
    /\ reruns < MaxReruns
    /\ reruns' = reruns + 1
    /\ raw_script' = raw_text
    /\ IF strip(raw_text) = <<>> \/ parse_script(raw_text) = <<>>
       THEN UNCHANGED <<scenes, video_bytes, video_error_msg, pc, pool>>
       ELSE /\ scenes' = parse_script(raw_text)
            /\ EnterDispatch(DefaultMaxWorkers)
            /\ UNCHANGED <<video_bytes, video_error_msg>>
    /\ UNCHANGED <<config, imageio, ret>>

\* `if clicked_generate:` up to the call of bulk_generate_images
ClickedGenerate(raw_text) ==
    /\ Idle
    /\ reruns < MaxReruns
    /\ reruns' = reruns + 1
    /\ IF strip(raw_text) = <<>> \/ parse_script(raw_text) = <<>>
       THEN UNCHANGED <<scenes, session, pc, pool>>
       ELSE /\ raw_script' = raw_text
            /\ scenes' = parse_script(raw_text)
            /\ EnterDispatch(DefaultMaxWorkers)
            /\ UNCHANGED <<video_bytes, video_error_msg>>
    /\ UNCHANGED <<config, imageio, ret>>

\* bulk_generate_images returned: the handler clears the video
GenerateDone ==
    /\ pc = "returned"
    /\ video_bytes' = Absent
    /\ video_error_msg' = None
    /\ pc' = "idle"
    /\ PoolAtRest
    /\ UNCHANGED <<scenes, raw_script, config, env>>

\* the exception left bulk_generate_images: it ends the script run
GenerateAborted ==
    /\ pc = "raised"
    /\ pc' = "idle"
    /\ PoolAtRest
    /\ UNCHANGED <<scenes, session, config, env>>

VideoMessage(err_msg) ==
    CASE err_msg = "WRITER_ERROR" -> "video error: WRITER_ERROR"
      [] err_msg = "WRITE_FRAME_ERROR" -> "video error: WRITE_FRAME_ERROR"
      [] err_msg = "FILE_READ_ERROR" -> "video error: FILE_READ_ERROR"
      [] err_msg = "NO_IMAGES" -> "video error: NO_IMAGES"
      [] err_msg = "IMAGEIO_MISSING" -> "video error: IMAGEIO_MISSING"
      [] OTHER -> "video error: None"

\* [mutant] a successful assembly stores the video and leaves the message
\* of an earlier failure in place
ClickedVideo_KeepError ==
    /\ Idle
    /\ reruns < MaxReruns
    /\ reruns' = reruns + 1
    /\ IF scenes = <<>> \/ ImagesOf(scenes) = <<>>
       THEN UNCHANGED <<video_bytes, video_error_msg>>
       ELSE IF imageio = None
       THEN /\ video_error_msg' = "imageio module missing"
            /\ video_bytes' = Absent
       ELSE \E r \in create_video_from_scenes(scenes, seconds_per_scene, VideoFps) :
               IF r[1] # Absent
               THEN /\ video_bytes' = r[1]
                    /\ UNCHANGED video_error_msg
               ELSE /\ video_bytes' = Absent
                    /\ video_error_msg' = VideoMessage(r[2])
    /\ UNCHANGED <<scenes, raw_script, config, pc, pool, imageio, ret>>

\* `if clicked_video:`; VIDEO_MODELS has the one entry local_sequence_mp4, so
\* the branch for another video model is never taken
ClickedVideo ==
    /\ Idle
    /\ reruns < MaxReruns
    /\ reruns' = reruns + 1
    /\ IF scenes = <<>> \/ ImagesOf(scenes) = <<>>
       THEN UNCHANGED <<video_bytes, video_error_msg>>
       ELSE IF imageio = None
       THEN /\ video_error_msg' = "imageio module missing"
            /\ video_bytes' = Absent
       ELSE \E r \in create_video_from_scenes(scenes, seconds_per_scene, VideoFps) :
               IF r[1] # Absent
               THEN /\ video_bytes' = r[1]
                    /\ video_error_msg' = None
               ELSE /\ video_bytes' = Absent
                    /\ video_error_msg' = VideoMessage(r[2])
    /\ UNCHANGED <<scenes, raw_script, config, pc, pool, imageio, ret>>

\* the button of row i: generate_image on the row's prompt, the result
\* stored in st.session_state["scenes"][i], then st.rerun(); an exception of
\* generate_image ends the script run before the store
RegenerateWith(i, o) ==
    /\ Idle
    /\ reruns < MaxReruns
    /\ reruns' = reruns + 1
    /\ i \in DOMAIN scenes
    /\ o \in generate_image(scenes[i].prompt_en)
    /\ IF o.kind = "return"
       THEN scenes' = StoreImage(scenes, i, o.value)
       ELSE UNCHANGED scenes
    /\ UNCHANGED <<session, config, pc, pool, imageio, ret>>

Outcomes ==
    {[kind |-> "return", value |-> Absent]}
      \cup {[kind |-> "return", value |-> <<b>>] : b \in Blobs}
      \cup {[kind |-> "raise", value |-> e] : e \in RemoteErrors}

Regenerate(i) == \E o \in Outcomes : RegenerateWith(i, o)

Init ==
    /\ scenes = <<>>
    /\ raw_script = <<>>
    /\ video_bytes = Absent
    /\ video_error_msg = None
    /\ image_orientation = Square
    /\ image_quality = "low"
    /\ style_preset = "docu-stickman"
    /\ lock_character = TRUE
    /\ seconds_per_scene = DefaultHalves
    /\ pc = "idle"
    /\ max_workers = DefaultMaxWorkers
    /\ futures = <<>>
    /\ yielded = {}
    /\ raised = None
    /\ calls = <<>>
    /\ runs = <<>>
    /\ imageio \in {"imageio.v2", None}
    /\ reruns = 0
    /\ ret = [fn |-> None]

Next ==
    \/ Sidebar
    \/ \E raw_text \in Texts : ClickedGenerate(raw_text)
    \/ Dispatch
    \/ GenerateDone
    \/ GenerateAborted
    \/ ClickedVideo
    \/ \E i \in DOMAIN scenes : Regenerate(i)

Spec == Init /\ [][Next]_vars

\* ------------------------------------- bulk_generate_images on its own
\* batches the dispatcher is run on, as the texts they are parsed from
FiveScenes ==
    Block(<<"1">>, Directive("x")) \o Block(<<"2">>, Directive("y"))
      \o Block(<<"3">>, <<"a">>) \o Block(<<"4">>, Directive("x"))
      \o Block(<<"5">>, Directive("y"))
ThreeScenes ==
    Block(<<"3">>, Directive("x")) \o Block(<<"7">>, Directive("y"))
      \o Block(<<"9">>, Directive("z"))
SameId == Block(<<"1">>, Directive("x")) \o Block(<<"1">>, Directive("y"))
DispatchTexts == {FiveScenes, ThreeScenes, SameId, SkipScene}

\* widths the dispatcher is run with
Widths == {1, 2, DefaultMaxWorkers}

\* bulk_generate_images(parse_script(text), width) is entered
InitDispatch ==
    /\ \E text \in DispatchTexts :
          /\ raw_script = text
          /\ scenes = parse_script(text)
    /\ video_bytes = Absent
    /\ video_error_msg = None
    /\ image_orientation = Square
    /\ image_quality = "low"
    /\ style_preset = "docu-stickman"
    /\ lock_character = TRUE
    /\ seconds_per_scene = DefaultHalves
    /\ pc = "submit"
    /\ max_workers \in Widths
    /\ futures = <<>>
    /\ yielded = {}
    /\ raised = None
    /\ calls = [i \in DOMAIN scenes |-> <<>>]
    /\ runs = [i \in DOMAIN scenes |-> 0]
    /\ imageio = "imageio.v2"
    /\ reruns = 0
    /\ ret = [fn |-> None]

SpecDispatch == InitDispatch /\ [][Dispatch]_vars

\* Threads are scheduled and every remote call returns.
FairDispatch ==
    /\ SpecDispatch
    /\ WF_vars(Submit)
    /\ WF_vars(SubmitDone)
    /\ WF_vars(\E i \in DOMAIN futures : TaskStart(i))
    /\ WF_vars(\E i \in DOMAIN futures : TaskFinish(i))
    /\ WF_vars(\E i \in DOMAIN futures : Collect(i))
    /\ WF_vars(DispatchReturn)
    /\ WF_vars(DispatchRaise)

\* --------------------------------------------- the functions on their own
\* frame rates the assembler is called with, besides the call site's
MaxFps == 3
\* scenes of the batches the assembler is called on
MaxBatch == 2
MaxId == 2

FnScenes ==
    [id : 1..MaxId, korean : {<<"a">>}, prompt_en : {Directive("x")},
     image_b64 : {Absent} \cup {<<b>> : b \in Blobs}]
FnBatches == UNION {[1..n -> FnScenes] : n \in 0..MaxBatch}
FnPrompts == {<<>>, <<" ">>, <<" ", NL>>, Marker, Directive("x")}
\* a stored orientation that is none of the three labels of the radio
Unlisted == <<"diagonal", "">>
FnOrientations == Orientations \cup {Unlisted}

InitFn ==
    /\ scenes \in FnBatches
    /\ raw_script = <<>>
    /\ video_bytes = Absent
    /\ video_error_msg = None
    /\ image_orientation \in FnOrientations
    /\ image_quality = "low"
    /\ style_preset = "docu-stickman"
    /\ lock_character = TRUE
    /\ seconds_per_scene = DefaultHalves
    /\ pc = "idle"
    /\ max_workers = DefaultMaxWorkers
    /\ futures = <<>>
    /\ yielded = {}
    /\ raised = None
    /\ calls = <<>>
    /\ runs = <<>>
    /\ imageio \in {"imageio.v2", None}
    /\ reruns = 0
    /\ ret = [fn |-> None]

\* generate_image(prompt), called directly
CallGenerateImage(prompt) ==
    /\ \E o \in generate_image(prompt) :
          ret' = [fn |-> "generate_image", prompt |-> prompt,
                  requests |-> RequestFor(prompt), result |-> o]
    /\ UNCHANGED <<scenes, session, config, pc, pool, imageio, reruns>>

\* create_video_from_scenes(scenes, halves / 2, fps), called directly
CallCreateVideo(halves, fps) ==
    /\ \E r \in create_video_from_scenes(scenes, halves, fps) :
          ret' = [fn |-> "create_video_from_scenes", halves |-> halves,
                  fps |-> fps, result |-> r]
    /\ UNCHANGED <<scenes, session, config, pc, pool, imageio, reruns>>

NextFn ==
    \/ \E prompt \in FnPrompts : CallGenerateImage(prompt)
    \/ \E halves \in MinHalves..MaxHalves, fps \in (1..MaxFps) \cup {VideoFps} :
          CallCreateVideo(halves, fps)

SpecFn == InitFn /\ [][NextFn]_vars

\* ----------------------------------------------- parse_script on its own
\* lines a script is put together from
MaxLines == 4

\* three numbers, a body line, an empty line, a number with a trailing
\* blank, a blank line
ScriptLines ==
    {<<"1">>, <<"2">>, <<"1", "0">>, <<"a">>, <<>>, <<"2", " ">>, <<" ">>}

\* "\n".join(lines)
RECURSIVE JoinLines(_)
JoinLines(ls) ==
    IF ls = <<>> THEN <<>>
    ELSE IF Len(ls) = 1 THEN ls[1]
    ELSE ls[1] \o <<NL>> \o JoinLines(Tail(ls))

ScriptTexts ==
    {JoinLines(ls) : ls \in UNION {[1..n -> ScriptLines] : n \in 1..MaxLines}}

\* one numbered block whose body holds the marker, with and without text
\* and white space around it
BeforeMarker == {<<>>, <<"a">>, <<"a", " ">>, <<"a", NL>>}
AfterMarker ==
    {<<>>, <<"x">>, <<" ", "x">>, <<NL, "x">>, <<" ", "x", " ">>,
     <<" ", "x", LS>> \o Marker \o <<" ", "y">>}
MarkerTexts ==
    {<<"1", NL>> \o pre \o Marker \o post :
        pre \in BeforeMarker, post \in AfterMarker}

ParseTexts == ScriptTexts \cup MarkerTexts

\* the session defaults, with the text to parse held in raw_script
InitParse ==
    /\ scenes = <<>>
    /\ raw_script \in ParseTexts
    /\ video_bytes = Absent
    /\ video_error_msg = None
    /\ image_orientation = Square
    /\ image_quality = "low"
    /\ style_preset = "docu-stickman"
    /\ lock_character = TRUE
    /\ seconds_per_scene = DefaultHalves
    /\ pc = "idle"
    /\ max_workers = DefaultMaxWorkers
    /\ futures = <<>>
    /\ yielded = {}
    /\ raised = None
    /\ calls = <<>>
    /\ runs = <<>>
    /\ imageio = "imageio.v2"
    /\ reruns = 0
    /\ ret = [fn |-> None]

\* parse_script(text), called directly; blocks are the (num, block) pairs
\* of re.findall
CallParse(text) ==
    /\ ret' = [fn |-> "parse_script", text |-> text,
               blocks |-> FindAll(text, 1), result |-> parse_script(text)]
    /\ UNCHANGED <<scenes, session, config, pc, pool, imageio, reruns>>

NextParse == CallParse(raw_script)

SpecParse == InitParse /\ [][NextParse]_vars

\* =================================================================
\* Properties
\* =================================================================
Terminated == pc \in {"returned", "raised"}
HasPrompt(i) == ~Falsy(scenes[i].prompt_en)

\* C1 (SpecDispatch): whatever the completion order, a scene never holds an
\* image other than the one its own task produced, and when the dispatch
\* has returned every scene holds exactly the outcome of its own task, whose
\* request was built from the scene's own prompt.
C1_OwnOutcome ==
    \A i \in DOMAIN scenes :
       /\ scenes[i].image_b64 # Absent =>
             /\ i \in Finished
             /\ futures[i].kind = "return"
             /\ scenes[i].image_b64 = futures[i].value[2]
       /\ pc = "returned" =>
             /\ futures[i].kind = "return"
             /\ scenes[i].image_b64 = futures[i].value[2]
             /\ calls[i] = RequestFor(scenes[i].prompt_en)

\* the dispatch has returned on a batch of two scenes with the same id, and
\* the two hold different images
C1_Witness ==
    /\ pc = "returned"
    /\ Len(scenes) = 2
    /\ scenes[1].id = scenes[2].id
    /\ scenes[1].image_b64 # Absent
    /\ scenes[2].image_b64 # Absent
    /\ scenes[1].image_b64 # scenes[2].image_b64

\* C2 (SpecDispatch), the claim as stated: a failing task does not make the
\* dispatch raise, and every scene with a prompt whose task succeeded holds
\* its image once the dispatch is over.
C2_FaultIsolation ==
    Terminated =>
       /\ pc = "returned"
       /\ \A i \in DOMAIN scenes :
             (HasPrompt(i) /\ futures[i].kind = "return")
                => scenes[i].image_b64 = futures[i].value[2]

\* C3 (SpecDispatch): at most max_workers tasks have started and not
\* finished.
C3_BoundedConcurrency == Cardinality(Running) <= max_workers

\* the default width is exhausted while an item waits in the queue
C3_Witness ==
    /\ max_workers = DefaultMaxWorkers
    /\ Len(scenes) > max_workers
    /\ Cardinality(Running) = max_workers
    /\ Pending # {}

\* every scene's task has been submitted and has left the queue
AllStarted ==
    \A i \in DOMAIN scenes : i \in DOMAIN futures /\ i \notin Pending

\* C4 (FairDispatch): every queued task eventually starts, the dispatch
\* eventually ends, and when it has ended the task of every scene with a
\* prompt has run to completion exactly once.
C4_Liveness ==
    /\ <>AllStarted
    /\ <>Terminated
    /\ [](Terminated =>
            \A i \in DOMAIN scenes :
               HasPrompt(i) => (i \in Finished /\ runs[i] = 1))

\* the dispatch is over on a batch longer than the pool is wide
C4_Witness ==
    /\ Terminated
    /\ Len(scenes) > max_workers
    /\ \A i \in DOMAIN scenes : runs[i] = 1

\* C5 (SpecFn), the claim as stated: a call of generate_image ends by
\* returning a value, never by raising.
C5_NeverRaises == ret.fn = "generate_image" => ret.result.kind = "return"

\* C6 (SpecDispatch): a scene with a prompt has at most one request sent for
\* it and exactly one when the dispatch is over; a scene without a prompt
\* has none and never holds an image.
C6_CallAccounting ==
    \A i \in DOMAIN scenes :
       IF HasPrompt(i)
       THEN /\ Len(calls[i]) <= 1
            /\ Terminated => Len(calls[i]) = 1
       ELSE /\ calls[i] = <<>>
            /\ scenes[i].image_b64 = Absent

\* the dispatch is over on a batch with a scene without a prompt, whose task
\* ran, and a scene with one
C6_Witness ==
    /\ pc = "returned"
    /\ \E i \in DOMAIN scenes : ~HasPrompt(i) /\ runs[i] = 1
    /\ \E i \in DOMAIN scenes : HasPrompt(i) /\ Len(calls[i]) = 1

\* C7 (SpecFn), the claim as stated: for a prompt that is empty or white
\* space only, generate_image sends no request and returns its no-image
\* value.
C7_BlankPromptNotSent ==
    (ret.fn = "generate_image" /\ strip(ret.prompt) = <<>>) =>
       /\ ret.requests = <<>>
       /\ ret.result = [kind |-> "return", value |-> Absent]

\* C8 (Spec): a regeneration of row i leaves the batch as it is except for
\* the image of row i, and leaves the whole batch as it is when
\* generate_image raises.
C8_RegenerateFrame ==
    [][\A i \in DOMAIN scenes : \A o \in Outcomes :
          RegenerateWith(i, o) =>
             /\ DOMAIN scenes' = DOMAIN scenes
             /\ \A j \in DOMAIN scenes : j # i => scenes'[j] = scenes[j]
             /\ scenes'[i].id = scenes[i].id
             /\ scenes'[i].korean = scenes[i].korean
             /\ scenes'[i].prompt_en = scenes[i].prompt_en
             /\ o.kind = "raise" => scenes' = scenes]_vars

\* Both rows hold an image and a video exists whose first frame is no
\* longer the image of row 1, while its last frame still is the image of
\* row 2: a completed generate clears the video and an aborted one leaves a
\* row without image, so row 1 was regenerated after the video was made.
C8_Witness ==
    /\ Idle
    /\ Len(scenes) = 2
    /\ scenes[1].image_b64 # Absent
    /\ scenes[2].image_b64 # Absent
    /\ video_bytes # Absent
    /\ video_bytes[1] # scenes[1].image_b64[1]
    /\ video_bytes[Len(video_bytes)] = scenes[2].image_b64[1]

\* the scenes of a batch in ascending id order (stable)
RECURSIVE SortById(_)
SortById(batch) ==
    IF batch = <<>> THEN <<>>
    ELSE LET rest == SortById(Tail(batch))
             head == Head(batch)
             before == SelectSeq(rest, LAMBDA sc : sc.id < head.id)
             after == SelectSeq(rest, LAMBDA sc : sc.id >= head.id)
         IN  before \o <<head>> \o after

\* C9 (Spec), the claim as stated: a video that is made holds the frames of
\* the scenes with an image in ascending id order, the frames of one scene
\* together.
C9_AscendingIdOrder ==
    [][(ClickedVideo /\ video_bytes' # Absent) =>
          video_bytes' = FramesOf(ImagesOf(SortById(scenes)),
                                  FramesPerScene(seconds_per_scene, VideoFps))]_vars

\* round(halves * fps / 2) as Python rounds: to nearest, a tie to even
Round(halves, fps) ==
    LET m == halves * fps
        q == m \div 2
    IN  IF m % 2 = 0 THEN q ELSE IF q % 2 = 0 THEN q ELSE q + 1

\* C10 (SpecFn), the claim as stated: a video that is made holds
\* k * max(1, round(s * f)) frames for the k scenes with an image.
C10_RoundedFrameCount ==
    (ret.fn = "create_video_from_scenes" /\ ret.result[1] # Absent) =>
       Len(ret.result[1]) =
          Len(ImagesOf(scenes)) * Max(1, Round(ret.halves, ret.fps))

\* C11 (Spec): an assembly gives either the complete video or no bytes at
\* all, no bytes whenever it reports an error, and leaves the batch and
\* every image as they were.
C11_AssemblyContained ==
    [][(ClickedVideo /\ ImagesOf(scenes) # <<>>) =>
          /\ scenes' = scenes
          /\ raw_script' = raw_script
          /\ video_bytes' \in
                {Absent, FramesOf(ImagesOf(scenes),
                                  FramesPerScene(seconds_per_scene, VideoFps))}
          /\ video_error_msg' # None => video_bytes' = Absent]_vars

\* a frame append failed on a batch of two images, which are still held
C11_Witness ==
    /\ video_error_msg = "video error: WRITE_FRAME_ERROR"
    /\ video_bytes = Absent
    /\ Len(ImagesOf(scenes)) = 2

\* the block of a match as parse_script holds it before the marker split
BlockText(rawblock) == ReplaceLS(strip(rawblock))

\* C12 (SpecParse): a block holding the marker gives the text before it as
\* source text and, as prompt, the marker with all that follows it in the
\* block, trimmed at the two ends only; a block without the marker gives
\* the whole block as source text and an empty prompt.
C12_MarkerSplit ==
    ret.fn = "parse_script" =>
       \A i \in 1..Len(ret.result) :
          LET block == BlockText(ret.blocks[i][2])
          IN  IF Contains(block, Marker)
              THEN /\ ret.result[i].korean = strip(SplitOnce(block, Marker)[1])
                   /\ ret.result[i].prompt_en =
                         strip(Marker \o SplitOnce(block, Marker)[2])
              ELSE /\ ret.result[i].korean = block
                   /\ ret.result[i].prompt_en = <<>>

\* the lines of a text, line breaks taken out
RECURSIVE SplitLines(_)
SplitLines(t) ==
    LET breaks == {i \in 1..Len(t) : t[i] = NL}
    IN  IF breaks = {} THEN <<t>>
        ELSE LET p == CHOOSE i \in breaks : \A j \in breaks : i <= j
             IN  <<Slice(t, 1, p - 1)>> \o SplitLines(Slice(t, p + 1, Len(t)))

DigitOnly(line) == line # <<>> /\ \A i \in 1..Len(line) : line[i] \in Digits
BlankLine(line) == \A i \in 1..Len(line) : line[i] \in Whitespace

\* digits, then nothing but white space up to the line break: what the
\* pattern's \d+\s*\n takes as a numbered line
DigitsThenBlank(line) ==
    \E d \in 1..Len(line) :
       DigitOnly(SubSeq(line, 1, d)) /\ BlankLine(Slice(line, d + 1, Len(line)))

\* the text is a run of numbered blocks: it starts with a numbered line and
\* every numbered line has a body line (a line that is neither numbered nor
\* blank) before the next numbered line or the end
MadeOfBlocks(lines, Numbered(_)) ==
    LET numbered == {k \in 1..Len(lines) : Numbered(lines[k])}
    IN  /\ 1 \in numbered
        /\ \A k \in numbered :
              \E j \in (k + 1)..Len(lines) :
                 /\ ~BlankLine(lines[j])
                 /\ \A m \in (k + 1)..j : m \notin numbered

\* the numbers the numbered lines declare, in text order
DeclaredIds(lines, Numbered(_)) ==
    LET heads == SelectSeq(lines, Numbered)
    IN  [i \in 1..Len(heads) |-> ToInt(SelectSeq(heads[i], LAMBDA c : c \in Digits))]

IdsOf(batch) == [i \in 1..Len(batch) |-> batch[i].id]

C14_SizeResolution ==
    (ret.fn = "generate_image" /\ ret.requests # <<>>) =>
       ret.requests[1].size =
          CASE image_orientation = Landscape -> "1536x1024"
            [] image_orientation = Portrait -> "1024x1536"
            [] OTHER -> "1024x1024"

HasDigitOnlyLine(t) ==
    \E k \in 1..Len(SplitLines(t)) : DigitOnly(SplitLines(t)[k])

\* C15 (SpecParse): every digit-only line of the input is a delimiter, so
\* no scene's source text or prompt holds a line made of digits only.
C15_DigitLinesDelimit ==
    ret.fn = "parse_script" =>
       \A i \in 1..Len(ret.result) :
          /\ ~HasDigitOnlyLine(ret.result[i].korean)
          /\ ~HasDigitOnlyLine(ret.result[i].prompt_en)

\* C16 (SpecDispatch): a step of the dispatch changes the image slot of
\* scene i only when the future of task i is taken from as_completed, which
\* happens once, and then to that task's own result; ids, source texts,
\* prompts, the number and order of the scenes and the configuration never
\* change.
C16_DisjointWrites ==
    [][/\ IdsOf(scenes') = IdsOf(scenes)
       /\ config' = config
       /\ yielded \subseteq yielded'
       /\ \A i \in DOMAIN scenes :
             /\ scenes'[i].korean = scenes[i].korean
             /\ scenes'[i].prompt_en = scenes[i].prompt_en
             /\ scenes'[i].image_b64 # scenes[i].image_b64 =>
                   /\ yielded' \ yielded = {i}
                   /\ futures[i].kind = "return"
                   /\ scenes'[i].image_b64 = futures[i].value[2]]_vars

\* two scenes with the same id were written with different images
C16_Witness ==
    /\ pc = "returned"
    /\ raw_script = SameId
    /\ scenes[1].image_b64 # Absent
    /\ scenes[2].image_b64 # Absent
    /\ scenes[1].image_b64 # scenes[2].image_b64

\* the typed texts that are blank or hold no scene
NoSceneTexts == {t \in Texts : strip(t) = <<>> \/ parse_script(t) = <<>>}

\* C17 (Spec): a generate click on a text that is blank or holds no scene
\* leaves the batch with its images, the raw script, the video and the
\* video error as they were, and starts no dispatch and no remote call.
C17_BlankGenerateNoOp ==
    [][\A t \in NoSceneTexts :
          ClickedGenerate(t) =>
             /\ scenes' = scenes
             /\ raw_script' = raw_script
             /\ video_bytes' = video_bytes
             /\ video_error_msg' = video_error_msg
             /\ pc' = "idle"
             /\ futures' = futures
             /\ calls' = calls]_vars

\* a third script run that left the generated batch and its video in place
C17_Witness ==
    /\ Idle
    /\ reruns = 3
    /\ raw_script = OneScene
    /\ scenes[1].image_b64 # Absent
    /\ video_bytes # Absent
    /\ video_error_msg = None

\* C18 (Spec): between script runs, video bytes held by the session are
\* the frames of the images the batch holds now, each held for one of the
\* durations the slider offers.
C18_VideoNeverStale ==
    (Idle /\ video_bytes # Absent) =>
       \E halves \in (MinHalves..MaxHalves) \cup {DefaultHalves} :
          video_bytes =
             FramesOf(ImagesOf(scenes), FramesPerScene(halves, VideoFps))

\* C19 (Spec): the session never holds video bytes and a video error at
\* once; an assembly leaves exactly one of the two set, and a completed
\* generate leaves neither.
C19_VideoXorError ==
    /\ [](~(video_bytes # Absent /\ video_error_msg # None))
    /\ [][(ClickedVideo /\ ImagesOf(scenes) # <<>>) =>
             (video_bytes' # Absent) # (video_error_msg' # None)]_vars
    /\ [][GenerateDone =>
             (video_bytes' = Absent /\ video_error_msg' = None)]_vars

\* after three script runs on the two-scene script the session holds a
\* video and no error
C19_Witness ==
    /\ Idle
    /\ reruns = 3
    /\ imageio # None
    /\ video_bytes # Absent
    /\ video_error_msg = None
    /\ raw_script = Descending

====
